---- MODULE Spec2Model ----
(***************************************************************************)
(* md-profiler: the trace decoder (read_profiling_file), the timeline      *)
(* reconstructor (generate_profiling_json), the interval registry          *)
(* (Intervals::reach) and its builder (read_intervals) as state machines.  *)
(*                                                                         *)
(* SpecDecode runs the decoder on a file; Spec runs the reconstructor on a *)
(* packet sequence, a symbol table and an interval registry;               *)
(* SpecReadIntervals runs read_intervals, which builds the registry from   *)
(* the interval definition text.                                           *)
(*                                                                         *)
(* In the reconstructor machine words are kept at a reduced width: a u32   *)
(* is a number in 0 .. U32Mod-1 and a u64 a number in 0 .. U64Mod-1, with  *)
(* U64Mod = U32Mod^2 as 2^64 = (2^32)^2.  Arithmetic on them is the        *)
(* code's: an overflowing + or - panics when the build has overflow checks *)
(* (cargo's dev profile) and wraps when it has none (the release profile); *)
(* the build is the variable overflow_checks, chosen once for a run.       *)
(* In the decoder a byte is a number in 0..255 and a word four of them;    *)
(* its only sums are of fewer than 2^32 words and stay below 2^64.         *)
(* An Option<T> is a sequence of length at most one.                       *)
(***************************************************************************)
EXTENDS Integers, Sequences, FiniteSets, TLC

VARIABLES
    \* read_profiling_file
    input,            \* the file: bytes before offset 256 and the stream after
    dpc,              \* position of the decoder: "header", "loop", "returned", "panicked"
    i,                \* read position in input (byte offset)
    cycle_offset,     \* running sum of the AdjustCycles deltas
    dpackets,         \* the Vec<ProfilingPacket> being built
    records,          \* history: one entry per record the loop consumed
    \* generate_profiling_json
    overflow_checks,  \* TRUE: overflow panics, FALSE: it wraps
    packets,          \* input.packets
    mclk,             \* input.mclk
    symbols,          \* symbols.address_to_label
    custom_threads,   \* lane name -> tid
    intervals,        \* the Intervals registry (intervals_info, starts, ends)
    rpc,              \* position: "start", "scan", "done", "panicked"
    n,                \* index of the packet the for loop is at (1-based)
    last_cycle,       \* input.packets.last().cycle + 1
    tid,              \* the current lane
    trace_events,     \* the Vec<TraceEvent> being built
    output,           \* Some(the events written to the json file), None before
    origin,           \* history: for each event, the index of the packet that pushed it (0: none)
    before,           \* history: for each packet gone through, tid and intervals_info before it
    \* read_intervals (it builds intervals and custom_threads)
    itext,            \* input, as text
    isymbols,         \* symbols: the BTreeMap as its entries <<label, address>> in key order
    ipc,              \* position: "loop", "returned", "panicked"
    line_no,          \* index of the line the for loop is at (1-based)
    current_new_tid,  \* the next lane id to hand out
    named             \* history: for each definition, the lane name its line gave, if any

dvars == <<input, dpc, i, cycle_offset, dpackets, records>>
rvars == <<overflow_checks, packets, mclk, symbols, custom_threads, intervals,
           rpc, n, last_cycle, tid, trace_events, output, origin, before>>
ivars == <<itext, isymbols, ipc, line_no, current_new_tid, named>>
vars == <<input, dpc, i, cycle_offset, dpackets, records,
          overflow_checks, packets, mclk, symbols, custom_threads, intervals,
          rpc, n, last_cycle, tid, trace_events, output, origin, before,
          itext, isymbols, ipc, line_no, current_new_tid, named>>

----------------------------------------------------------------------------
(* Bounds of the model *)

\* a u32 holds 0 .. U32Mod-1 (2^32 in the program)
U32Mod == 16
\* a u64 holds 0 .. U64Mod-1 (2^64 in the program)
U64Mod == U32Mod * U32Mod
\* longest packet sequence handed to the reconstructor
MaxPackets == 3

U32Max == U32Mod - 1

None == <<>>
Some(x) == <<x>>

----------------------------------------------------------------------------
(* Machine arithmetic: the wrapped value and whether the operation overflowed *)

U32Add(a, b) == [overflow |-> a + b >= U32Mod, val |-> (a + b) % U32Mod]
U64Add(a, b) == [overflow |-> a + b >= U64Mod, val |-> (a + b) % U64Mod]
U64Sub(a, b) == [overflow |-> a < b, val |-> (a - b + U64Mod) % U64Mod]

\* cycle as f64 / mclk * 1_000_000.0, on clock rates that divide the product
\* (the rounding of f64 is not modelled)
cycle_to_us(cycle, clk) == (cycle * 1000000) \div clk

----------------------------------------------------------------------------
(* symbols.address_to_label, and the name an address is shown under *)

HexDigits == <<"0", "1", "2", "3", "4", "5", "6", "7",
               "8", "9", "a", "b", "c", "d", "e", "f">>

RECURSIVE LowerHex(_)
LowerHex(x) ==
    IF x < 16 THEN HexDigits[x + 1]
    ELSE LowerHex(x \div 16) \o HexDigits[(x % 16) + 1]

\* format!("{:#x}", x)
FormatHex(x) == "0x" \o LowerHex(x)

\* symbols.address_to_label.get(&target): the last label, else the hex literal
LabelOf(address_to_label, target) ==
    IF target \in DOMAIN address_to_label
    THEN address_to_label[target][Len(address_to_label[target])]
    ELSE FormatHex(target)

----------------------------------------------------------------------------
(* TraceEvent *)

TraceEvent(name, ph, ts, dur, lane, args, s) ==
    [name |-> name, ph |-> ph, ts |-> ts, dur |-> dur, pid |-> 0,
     tid |-> lane, args |-> args, s |-> s]

TraceEventArgs(name, sort_index) == [name |-> name, sort_index |-> sort_index]

\* the five events trace_events starts with
MetadataEvents ==
    << TraceEvent("process_name", "M", 0, 0, 0,
                  Some(TraceEventArgs(Some("M68000"), None)), None),
       TraceEvent("thread_name", "M", 0, 0, 0,
                  Some(TraceEventArgs(Some("Main thread"), None)), None),
       TraceEvent("thread_name", "M", 0, 0, 1,
                  Some(TraceEventArgs(Some("Interrupts"), None)), None),
       TraceEvent("thread_sort_index", "M", 0, 0, 0,
                  Some(TraceEventArgs(None, Some(0))), None),
       TraceEvent("thread_sort_index", "M", 0, 0, 1,
                  Some(TraceEventArgs(None, Some(1))), None) >>

\* the two events pushed for each custom thread, in the order `order` visits them
RECURSIVE CustomThreadEvents(_, _)
CustomThreadEvents(order, threads) ==
    IF order = <<>> THEN <<>>
    ELSE LET name == Head(order)
             t == threads[name]
         IN  << TraceEvent("thread_name", "M", 0, 0, t,
                           Some(TraceEventArgs(Some(name), None)), None),
                TraceEvent("thread_sort_index", "M", 0, 0, t,
                           Some(TraceEventArgs(None, Some(t))), None) >>
             \o CustomThreadEvents(Tail(order), threads)

\* the orders in which a HashMap with these keys may be iterated
IterationOrders(keys) ==
    { o \in [1..Cardinality(keys) -> keys] :
        \A a, b \in 1..Cardinality(keys) : a # b => o[a] # o[b] }

----------------------------------------------------------------------------
(* Intervals::reach *)

\* self.ends.get(&pc).unwrap_or(&vec![])
GetOrEmpty(map, key) == IF key \in DOMAIN map THEN map[key] ELSE <<>>

\* the first loop without `interval_info.reached_at = None`: the event is
\* pushed and the interval stays open
RECURSIVE CloseLoopKeepsOpen(_, _, _, _, _, _)
CloseLoopKeepsOpen(idxs, info, events, cycle, clk, checks) ==
    IF idxs = <<>> THEN [panic |-> FALSE, info |-> info, events |-> events]
    ELSE LET k == Head(idxs)
             interval_info == info[k]
         IN  IF interval_info.reached_at # None
             THEN LET reached_at == interval_info.reached_at[1]
                      d == U64Sub(cycle, reached_at)
                  IN  IF d.overflow /\ checks
                      THEN [panic |-> TRUE, info |-> info, events |-> events]
                      ELSE CloseLoopKeepsOpen(Tail(idxs), info,
                                     Append(events,
                                            TraceEvent(interval_info.name, "X",
                                                       cycle_to_us(reached_at, clk),
                                                       cycle_to_us(d.val, clk),
                                                       interval_info.tid, None, None)),
                                     cycle, clk, checks)
             ELSE CloseLoopKeepsOpen(Tail(idxs), info, events, cycle, clk, checks)

\* the first loop of reach over the indices `idxs`: every open interval is
\* closed and its event pushed
RECURSIVE CloseLoop(_, _, _, _, _, _)
CloseLoop(idxs, info, events, cycle, clk, checks) ==
    IF idxs = <<>> THEN [panic |-> FALSE, info |-> info, events |-> events]
    ELSE LET k == Head(idxs)
             interval_info == info[k]
         IN  IF interval_info.reached_at # None
             THEN LET reached_at == interval_info.reached_at[1]
                      d == U64Sub(cycle, reached_at)
                  IN  IF d.overflow /\ checks
                      THEN [panic |-> TRUE, info |-> info, events |-> events]
                      ELSE CloseLoop(Tail(idxs),
                                     [info EXCEPT ![k].reached_at = None],
                                     Append(events,
                                            TraceEvent(interval_info.name, "X",
                                                       cycle_to_us(reached_at, clk),
                                                       cycle_to_us(d.val, clk),
                                                       interval_info.tid, None, None)),
                                     cycle, clk, checks)
             ELSE CloseLoop(Tail(idxs), info, events, cycle, clk, checks)

\* OpenLoop without the is_none test: a later start hit restarts the timer
RECURSIVE OpenLoopRetimes(_, _, _)
OpenLoopRetimes(idxs, info, cycle) ==
    IF idxs = <<>> THEN info
    ELSE OpenLoopRetimes(Tail(idxs),
                         [info EXCEPT ![Head(idxs)].reached_at = Some(cycle)], cycle)

\* the second loop of reach: every closed interval is opened at `cycle`
RECURSIVE OpenLoop(_, _, _)
OpenLoop(idxs, info, cycle) ==
    IF idxs = <<>> THEN info
    ELSE LET k == Head(idxs)
         IN  IF info[k].reached_at = None
             THEN OpenLoop(Tail(idxs), [info EXCEPT ![k].reached_at = Some(cycle)], cycle)
             ELSE OpenLoop(Tail(idxs), info, cycle)

\* reach(pc, trace_events, cycle, mclk) on the registry `reg`
reach(reg, addr, events, cycle, clk, checks) ==
    LET closed == CloseLoop(GetOrEmpty(reg.ends, addr), reg.intervals_info,
                            events, cycle, clk, checks)
    IN  IF closed.panic
        THEN [panic |-> TRUE, intervals |-> reg, events |-> events]
        ELSE [panic |-> FALSE,
              intervals |-> [reg EXCEPT !.intervals_info =
                                OpenLoop(GetOrEmpty(reg.starts, addr), closed.info, cycle)],
              events |-> closed.events]

----------------------------------------------------------------------------
(* generate_profiling_json: the forward scans *)

\* matching_packet.stack_pointer + 4 >= packet.stack_pointer, given the sum
ReturnsTo(sum, enter_sp) == sum >= enter_sp

\* for matching_packet in &input.packets[i+1..], from index k on, for the
\* SubroutineEnter whose stack pointer is enter_sp
RECURSIVE SubroutineEnd(_, _, _, _, _)
SubroutineEnd(pkts, k, enter_sp, dflt, checks) ==
    IF k > Len(pkts) THEN [panic |-> FALSE, matched |-> 0, end_cycle |-> dflt]
    ELSE IF pkts[k].inner = "SubroutineExit"
         THEN LET sum == U32Add(pkts[k].stack_pointer, 4)
              IN  IF sum.overflow /\ checks
                  THEN [panic |-> TRUE, matched |-> 0, end_cycle |-> dflt]
                  ELSE IF ReturnsTo(sum.val, enter_sp)
                       THEN [panic |-> FALSE, matched |-> k, end_cycle |-> pkts[k].cycle]
                       ELSE SubroutineEnd(pkts, k + 1, enter_sp, dflt, checks)
         ELSE SubroutineEnd(pkts, k + 1, enter_sp, dflt, checks)

\* the same scan for an InterruptEnter: the first InterruptExit
RECURSIVE InterruptEnd(_, _, _)
InterruptEnd(pkts, k, dflt) ==
    IF k > Len(pkts) THEN [matched |-> 0, end_cycle |-> dflt]
    ELSE IF pkts[k].inner = "InterruptExit"
         THEN [matched |-> k, end_cycle |-> pkts[k].cycle]
         ELSE InterruptEnd(pkts, k + 1, dflt)

----------------------------------------------------------------------------
(* read_profiling_file *)

PROFILER_PACKET_SUBROUTINE_ENTER == 0
PROFILER_PACKET_SUBROUTINE_EXIT == 1
PROFILER_PACKET_INTERRUPT_ENTER == 2
PROFILER_PACKET_INTERRUPT_EXIT == 3
PROFILER_PACKET_HINT == 4
PROFILER_PACKET_VINT == 5
PROFILER_PACKET_ADJUST_CYCLES == 6
PROFILER_PACKET_MANUAL_BREAKPOINT == 7

\* let mut i = 256
StreamStart == 256
\* the header bytes read: input[3], input[4..8], input[8..12]
HeaderRead == 12

InputLen == input.header_len + Len(input.stream)

\* input[pos], for a position in the stream
InputByte(pos) == input.stream[pos - StreamStart + 1]

\* u32::from_ne_bytes on a little-endian target
from_ne_bytes(b) == b[1] + 256 * b[2] + 65536 * b[3] + 16777216 * b[4]

\* input[pos..pos+4] is in bounds
InBounds(pos) == pos + 4 <= InputLen

\* u32::from_ne_bytes(input[pos..pos+4])
WordAt(pos) ==
    from_ne_bytes(<<InputByte(pos), InputByte(pos + 1), InputByte(pos + 2), InputByte(pos + 3)>>)

\* the match without its panicking arm: an unknown type is passed over
InnerOfLenient(packet_type) ==
    CASE packet_type = 0 -> "SubroutineEnter"
      [] packet_type = 1 -> "SubroutineExit"
      [] packet_type = 2 -> "InterruptEnter"
      [] packet_type = 3 -> "InterruptExit"
      [] packet_type = 5 -> "VInt"
      [] packet_type = 6 -> "AdjustCycles"
      [] packet_type = 7 -> "ManualBreakpoint"
      [] OTHER -> "HInt"

\* the arms of `match packet_type`: the variant made, and whether a 4-byte
\* payload is read for it
InnerOf(packet_type) ==
    CASE packet_type = PROFILER_PACKET_SUBROUTINE_ENTER -> "SubroutineEnter"
      [] packet_type = PROFILER_PACKET_SUBROUTINE_EXIT -> "SubroutineExit"
      [] packet_type = PROFILER_PACKET_INTERRUPT_ENTER -> "InterruptEnter"
      [] packet_type = PROFILER_PACKET_INTERRUPT_EXIT -> "InterruptExit"
      [] packet_type = PROFILER_PACKET_HINT -> "HInt"
      [] packet_type = PROFILER_PACKET_VINT -> "VInt"
      [] packet_type = PROFILER_PACKET_ADJUST_CYCLES -> "AdjustCycles"
      [] packet_type = PROFILER_PACKET_MANUAL_BREAKPOINT -> "ManualBreakpoint"
      [] OTHER -> "Unknown"

\* a payload read after an AdjustCycles record too
ReadsPayloadWithAdjust(packet_type) ==
    packet_type \in {PROFILER_PACKET_SUBROUTINE_ENTER, PROFILER_PACKET_INTERRUPT_ENTER,
                     PROFILER_PACKET_ADJUST_CYCLES, PROFILER_PACKET_MANUAL_BREAKPOINT}

ReadsPayload(packet_type) ==
    packet_type \in {PROFILER_PACKET_SUBROUTINE_ENTER, PROFILER_PACKET_INTERRUPT_ENTER,
                     PROFILER_PACKET_MANUAL_BREAKPOINT}

\* the cycle of a packet without the offset
AbsoluteCycleNoOffset(offset, cycle32) == cycle32

\* let cycle = cycle_offset + cycle32 as u64.  The sum of fewer than 2^32
\* values below 2^32 is below 2^64: no stream of the model overflows it.
AbsoluteCycle(offset, cycle32) == offset + cycle32

\* one pass of the while loop body from position pos: what it reads and where
\* it stops; panic when a slice is out of bounds or the type is unknown
Record(pos) ==
    LET packet_type == InputByte(pos)
        have_cycle == InBounds(pos + 1)
        have_sp == have_cycle /\ InBounds(pos + 5)
        payload == ReadsPayload(packet_type)
        have_payload == have_sp /\ (payload => InBounds(pos + 9))
    IN  [packet_type |-> packet_type,
         at |-> pos,
         panic |-> ~have_payload \/ InnerOf(packet_type) = "Unknown",
         cycle32 |-> IF have_cycle THEN WordAt(pos + 1) ELSE 0,
         stack_pointer |-> IF have_sp THEN WordAt(pos + 5) ELSE 0,
         arg |-> IF payload /\ have_payload THEN WordAt(pos + 9) ELSE 0,
         next |-> IF payload THEN pos + 13 ELSE pos + 9]

\* lines 76-85
ReadHeader ==
    /\ dpc = "header"
    /\ IF InputLen < HeaderRead
       THEN dpc' = "panicked" /\ i' = i
       ELSE dpc' = "loop" /\ i' = StreamStart
    /\ UNCHANGED <<input, cycle_offset, dpackets, records, rvars, ivars>>

\* lines 86-131: a record that becomes a packet
DecodePacket ==
    /\ dpc = "loop"
    /\ i < InputLen
    /\ LET r == Record(i)
       IN  /\ ~r.panic
           /\ r.packet_type # PROFILER_PACKET_ADJUST_CYCLES
           /\ i' = r.next
           /\ dpackets' = Append(dpackets,
                                 [cycle |-> AbsoluteCycle(cycle_offset, r.cycle32),
                                  stack_pointer |-> r.stack_pointer,
                                  inner |-> InnerOf(r.packet_type),
                                  arg |-> r.arg])
           /\ records' = Append(records, r)
    /\ UNCHANGED <<input, dpc, cycle_offset, rvars, ivars>>

\* lines 113-116: cycle_offset += cycle32 as u64; continue
AdjustCycles ==
    /\ dpc = "loop"
    /\ i < InputLen
    /\ LET r == Record(i)
       IN  /\ ~r.panic
           /\ r.packet_type = PROFILER_PACKET_ADJUST_CYCLES
           /\ i' = r.next
           /\ cycle_offset' = cycle_offset + r.cycle32
           /\ records' = Append(records, r)
    /\ UNCHANGED <<input, dpc, dpackets, rvars, ivars>>

\* a slice out of bounds, or line 124
DecodePanic ==
    /\ dpc = "loop"
    /\ i < InputLen
    /\ Record(i).panic
    /\ dpc' = "panicked"
    /\ UNCHANGED <<input, i, cycle_offset, dpackets, records, rvars, ivars>>

\* the loop left as soon as fewer than 9 bytes remain
ReturnBeforePartial ==
    /\ dpc = "loop"
    /\ ~(i + 9 <= InputLen)
    /\ dpc' = "returned"
    /\ UNCHANGED <<input, i, cycle_offset, dpackets, records, rvars, ivars>>

\* lines 133-137
Return ==
    /\ dpc = "loop"
    /\ ~(i < InputLen)
    /\ dpc' = "returned"
    /\ UNCHANGED <<input, i, cycle_offset, dpackets, records, rvars, ivars>>

NextDecode ==
    \/ ReadHeader
    \/ DecodePacket
    \/ AdjustCycles
    \/ DecodePanic
    \/ Return

----------------------------------------------------------------------------
(* The inputs of read_profiling_file *)

\* longest stream, in whole records
MaxRecords == 3

to_le_bytes(v) == <<v % 256, (v \div 256) % 256, (v \div 65536) % 256, v \div 16777216>>

\* a record as the profiler writes it
Written(packet_type, cycle32, stack_pointer) ==
    <<packet_type>> \o to_le_bytes(cycle32) \o to_le_bytes(stack_pointer)

WholeRecords ==
    { Written(0, 1, 5) \o to_le_bytes(1),
      Written(1, 2, 5),
      Written(2, 1, 5) \o to_le_bytes(2),
      Written(3, 2, 5),
      Written(4, 1, 5),
      Written(5, 257, 5),
      Written(6, 3, 5),
      Written(6, 65536, 5),
      Written(7, 0, 5) \o to_le_bytes(2) }

\* what may follow the whole records: nothing, a record cut short (after its
\* type, in its cycle, in its stack pointer, in its payload), a record of an
\* unknown type, or the 4 bytes of a delta after an AdjustCycles record
Tails ==
    {<<>>}
    \cup { SubSeq(Written(7, 1, 5) \o to_le_bytes(2), 1, len) : len \in {1, 4, 8, 9, 12} }
    \cup {SubSeq(Written(6, 3, 5), 1, 8)}
    \cup {<<8>>, Written(8, 1, 5)}
    \cup {Written(6, 0, 5) \o to_le_bytes(3)}

RECURSIVE Flatten(_)
Flatten(seqs) == IF seqs = <<>> THEN <<>> ELSE Head(seqs) \o Flatten(Tail(seqs))

\* the input is a file that ends before the stream starts, or one whose
\* stream is at most MaxRecords whole records and a tail
IsInput(file) ==
    \/ \E len \in {0, 3, 11, 12, 255} : file = [header_len |-> len, stream |-> <<>>]
    \/ \E len \in 0..MaxRecords :
          \E recs \in [1..len -> WholeRecords], tail \in Tails :
              file = [header_len |-> StreamStart, stream |-> Flatten(recs) \o tail]

\* generate_profiling_json is not running in SpecDecode
ReconstructorIdle ==
    /\ overflow_checks = FALSE
    /\ packets = <<>>
    /\ mclk = 0
    /\ symbols = <<>>
    /\ custom_threads = <<>>
    /\ intervals = [intervals_info |-> <<>>, starts |-> <<>>, ends |-> <<>>]
    /\ rpc = "idle"
    /\ n = 0
    /\ last_cycle = 0
    /\ tid = 0
    /\ trace_events = <<>>
    /\ output = <<>>
    /\ origin = <<>>
    /\ before = <<>>

\* read_intervals is not running in SpecDecode and has returned in Spec
BuilderIdle ==
    /\ itext = ""
    /\ isymbols = <<>>
    /\ ipc = "idle"
    /\ line_no = 0
    /\ current_new_tid = 0
    /\ named = <<>>

InitDecode ==
    /\ IsInput(input)
    /\ dpc = "header"
    /\ i = 0
    /\ cycle_offset = 0
    /\ dpackets = <<>>
    /\ records = <<>>
    /\ ReconstructorIdle
    /\ BuilderIdle

SpecDecode == InitDecode /\ [][NextDecode]_vars

----------------------------------------------------------------------------
(* The inputs of generate_profiling_json *)

Packet(cycle, stack_pointer, inner, arg) ==
    [cycle |-> cycle, stack_pointer |-> stack_pointer, inner |-> inner, arg |-> arg]

\* stack pointers of the SubroutineEnter and of the SubroutineExit packets:
\* 1 + 4 reaches 5 exactly and does not reach U32Max; U32Max + 4 overflows
\* and wraps below 5
EnterStackPointers == {5, U32Max}
ExitStackPointers == {1, U32Max}

\* a packet without its cycle: <<inner, stack_pointer, arg>>, arg being
\* target_subroutine, target_interrupt or pc
PacketShapes ==
    ({"SubroutineEnter"} \X EnterStackPointers \X {1})
    \cup ({"SubroutineExit"} \X ExitStackPointers \X {0})
    \cup {<<"InterruptEnter", U32Max, 2>>, <<"InterruptExit", 1, 0>>,
          <<"HInt", 1, 0>>, <<"VInt", 1, 0>>}
    \cup ({"ManualBreakpoint"} \X {1} \X {1, 2})

\* the cycles of a sequence of `len` packets: rising from 0, rising with each
\* cycle held for two packets, or falling to 0
CycleProfiles(len) ==
    { [k \in 1..len |-> k - 1], [k \in 1..len |-> (k - 1) \div 2],
      [k \in 1..len |-> len - k] }

\* packets is a sequence of at most MaxPackets packets of these shapes, with
\* one of the cycle profiles
IsPacketSequence(pkts) ==
    \E len \in 0..MaxPackets :
        \E sh \in [1..len -> PacketShapes], prof \in CycleProfiles(len) :
            pkts = [k \in 1..len |-> Packet(prof[k], sh[k][2], sh[k][1], sh[k][3])]

\* address_to_label: address 1 has two labels, address 2 none
SymbolTables == { (1 :> <<"Main", "Foo">>) }

IntervalInfo(name, lane) == [name |-> name, tid |-> lane, reached_at |-> None]

\* what read_intervals returns: the registry and custom_threads.
\* First: A from address 1 to 2 on the lane "gfx", B from 2 to 2 on lane 0.
\* Second: A from 1 or 2 to 2 on lane 0, listed twice at its end address.
IntervalTables ==
    { [intervals |-> [intervals_info |-> <<IntervalInfo("A", 2), IntervalInfo("B", 0)>>,
                      starts |-> (1 :> <<1>>) @@ (2 :> <<2>>),
                      ends |-> (2 :> <<1, 2>>)],
       custom_threads |-> ("gfx" :> 2)],
      [intervals |-> [intervals_info |-> <<IntervalInfo("A", 0)>>,
                      starts |-> (1 :> <<1>>) @@ (2 :> <<1>>),
                      ends |-> (2 :> <<1, 1>>)],
       custom_threads |-> <<>>] }

ClockRates == {500000}

----------------------------------------------------------------------------
(* read_profiling_file is not running in Spec *)

DecoderIdle ==
    /\ input = [header_len |-> 0, stream |-> <<>>]
    /\ dpc = "idle"
    /\ i = 0
    /\ cycle_offset = 0
    /\ dpackets = <<>>
    /\ records = <<>>

----------------------------------------------------------------------------
(* read_intervals: strings *)

\* str::starts_with
starts_with(s, p) == Len(s) >= Len(p) /\ SubSeq(s, 1, Len(p)) = p

\* the white space str::trim removes, of the characters the model's text has
WhiteSpace == {" ", "\t", "\r"}

RECURSIVE trim_start(_)
trim_start(s) ==
    IF Len(s) > 0 /\ SubSeq(s, 1, 1) \in WhiteSpace
    THEN trim_start(SubSeq(s, 2, Len(s)))
    ELSE s

RECURSIVE trim_end(_)
trim_end(s) ==
    IF Len(s) > 0 /\ SubSeq(s, Len(s), Len(s)) \in WhiteSpace
    THEN trim_end(SubSeq(s, 1, Len(s) - 1))
    ELSE s

trim(s) == trim_end(trim_start(s))

\* str::split on a one-character separator
RECURSIVE split(_, _)
split(s, sep) ==
    LET at == { k \in 1..Len(s) : SubSeq(s, k, k) = sep }
    IN  IF at = {} THEN <<s>>
        ELSE LET k == CHOOSE a \in at : \A b \in at : a <= b
             IN  <<SubSeq(s, 1, k - 1)>> \o split(SubSeq(s, k + 1, Len(s)), sep)

UpperHexDigits == <<"A", "B", "C", "D", "E", "F">>

\* char::to_digit(16)
to_digit(c) ==
    IF \E v \in 0..15 : HexDigits[v + 1] = c
    THEN Some(CHOOSE v \in 0..15 : HexDigits[v + 1] = c)
    ELSE IF \E v \in 10..15 : UpperHexDigits[v - 9] = c
         THEN Some(CHOOSE v \in 10..15 : UpperHexDigits[v - 9] = c)
         ELSE None

RECURSIVE HexValue(_, _)
HexValue(s, acc) ==
    IF s = "" THEN Some(acc)
    ELSE LET d == to_digit(SubSeq(s, 1, 1))
         IN  IF d = None THEN None
             ELSE HexValue(SubSeq(s, 2, Len(s)), acc * 16 + d[1])

\* u32::from_str_radix(s, 16): Some(value) for Ok, None for Err.  The tokens
\* of the model have fewer than 8 digits: none overflows a u32.
from_str_radix(s) ==
    LET digits == IF starts_with(s, "+") THEN SubSeq(s, 2, Len(s)) ELSE s
    IN  IF digits = "" THEN None ELSE HexValue(digits, 0)

----------------------------------------------------------------------------
(* read_intervals *)

\* read_interval_elm: the addresses of one element, or a panic.  The entries
\* of syms are in key order, so the keys from "mdp_label_" + input on that
\* start with it are all the keys that start with it.
read_interval_elm(elm, syms) ==
    LET exact == { x \in 1..Len(syms) : syms[x][1] = elm }
        hex == from_str_radix(elm)
        prefix == "mdp_label_" \o elm
        HasPrefix(e) == starts_with(e[1], prefix)
        found == SelectSeq(syms, HasPrefix)
    IN  IF exact # {}
        THEN [panic |-> FALSE, ret |-> <<syms[CHOOSE x \in exact : TRUE][2]>>]
        ELSE IF hex # None
             THEN [panic |-> FALSE, ret |-> <<hex[1]>>]
             ELSE [panic |-> found = <<>>,
                   ret |-> [x \in 1..Len(found) |-> found[x][2]]]

\* the addresses of a list of elements, in order; a panic when one has none
RECURSIVE ResolveAll(_, _)
ResolveAll(elms, syms) ==
    IF elms = <<>> THEN [panic |-> FALSE, ret |-> <<>>]
    ELSE LET r == read_interval_elm(Head(elms), syms)
             rest == ResolveAll(Tail(elms), syms)
         IN  [panic |-> r.panic \/ rest.panic, ret |-> r.ret \o rest.ret]

\* map.entry(address).or_default().push(interval_index), for each address
RECURSIVE PushAll(_, _, _)
PushAll(map, addrs, interval_index) ==
    IF addrs = <<>> THEN map
    ELSE LET a == Head(addrs)
         IN  PushAll([x \in DOMAIN map \cup {a} |->
                         IF x = a THEN Append(GetOrEmpty(map, a), interval_index)
                         ELSE map[x]],
                     Tail(addrs), interval_index)

\* the elements that give the start (end) addresses of a line
StartElms(line_elms) ==
    IF Len(line_elms) = 1 THEN <<trim(line_elms[1]) \o "_start">>
    ELSE split(trim(line_elms[1]), ";")

EndElms(line_elms) ==
    IF Len(line_elms) = 1 THEN <<trim(line_elms[1]) \o "_end">>
    ELSE split(trim(line_elms[2]), ";")

\* the lane name of a line: its fourth field, if it has one
LaneName(line_elms) ==
    IF Len(line_elms) >= 4 THEN Some(trim(line_elms[4])) ELSE None

\* lines 112-122 with a new id for every line that names a lane
AssignTidAlwaysNew(line_elms, threads, next) ==
    IF Len(line_elms) >= 4
    THEN LET custom_thread_name == trim(line_elms[4])
         IN  [tid |-> next, next |-> next + 1,
              threads |-> [x \in DOMAIN threads \cup {custom_thread_name} |->
                              IF x = custom_thread_name THEN next ELSE threads[x]]]
    ELSE [tid |-> 0, threads |-> threads, next |-> next]

\* lines 112-122: the tid of a line, custom_threads and current_new_tid after it
AssignTid(line_elms, threads, next) ==
    IF Len(line_elms) >= 4
    THEN LET custom_thread_name == trim(line_elms[4])
         IN  IF custom_thread_name \in DOMAIN threads
             THEN [tid |-> threads[custom_thread_name], threads |-> threads, next |-> next]
             ELSE [tid |-> next, next |-> next + 1,
                   threads |-> [x \in DOMAIN threads \cup {custom_thread_name} |->
                                   IF x = custom_thread_name THEN next ELSE threads[x]]]
    ELSE [tid |-> 0, threads |-> threads, next |-> next]

\* lines 123-127
NameOf(line, line_elms) ==
    IF Len(line_elms) >= 3 THEN trim(line_elms[3]) ELSE line

\* input.split('\n')
Lines == split(itext, "\n")

\* line 85: a comment or a line whose first field is blank
Skipped(line) ==
    \/ starts_with(trim_start(line), "//")
    \/ trim(split(line, ",")[1]) = ""

\* what generate_profiling_json has, unchanged by read_intervals
rrest == <<overflow_checks, packets, mclk, symbols, rpc, n, last_cycle, tid,
           trace_events, output, origin, before>>

\* lines 85-87: continue
SkipLine ==
    /\ ipc = "loop"
    /\ line_no <= Len(Lines)
    /\ Skipped(Lines[line_no])
    /\ line_no' = line_no + 1
    /\ UNCHANGED <<dvars, rrest, intervals, custom_threads,
                   itext, isymbols, ipc, current_new_tid, named>>

\* lines 88-132: one interval definition
ReadLine ==
    /\ ipc = "loop"
    /\ line_no <= Len(Lines)
    /\ ~Skipped(Lines[line_no])
    /\ UNCHANGED <<dvars, rrest, itext, isymbols>>
    /\ LET line == Lines[line_no]
           line_elms == split(line, ",")
           interval_index == Len(intervals.intervals_info) + 1
           interval_starts == ResolveAll(StartElms(line_elms), isymbols)
           interval_ends == ResolveAll(EndElms(line_elms), isymbols)
           lane == AssignTid(line_elms, custom_threads, current_new_tid)
       IN  IF interval_starts.panic \/ interval_ends.panic
           THEN \* line 70
                /\ ipc' = "panicked"
                /\ UNCHANGED <<intervals, custom_threads, line_no, current_new_tid, named>>
           ELSE /\ intervals' =
                     [intervals_info |-> Append(intervals.intervals_info,
                                                IntervalInfo(NameOf(line, line_elms), lane.tid)),
                      starts |-> PushAll(intervals.starts, interval_starts.ret, interval_index),
                      ends |-> PushAll(intervals.ends, interval_ends.ret, interval_index)]
                /\ custom_threads' = lane.threads
                /\ current_new_tid' = lane.next
                /\ named' = Append(named, LaneName(line_elms))
                /\ line_no' = line_no + 1
                /\ ipc' = ipc

\* lines 134-141
ReturnIntervals ==
    /\ ipc = "loop"
    /\ line_no > Len(Lines)
    /\ ipc' = "returned"
    /\ UNCHANGED <<dvars, rrest, intervals, custom_threads,
                   itext, isymbols, line_no, current_new_tid, named>>

NextReadIntervals ==
    \/ SkipLine
    \/ ReadLine
    \/ ReturnIntervals

----------------------------------------------------------------------------
(* The inputs of read_intervals *)

\* longest interval definition text, in lines
MaxLines == 3

\* the symbols: f_start and f_end for the single-token line "f", two labels
\* mdp_label_g... for the prefix "g", and main
SymbolMaps ==
    { << <<"f_end", 2>>, <<"f_start", 1>>, <<"main", 1>>,
         <<"mdp_label_g1", 1>>, <<"mdp_label_g2", 2>> >> }

\* lines: a single token, hexadecimal addresses with and without name and
\* lane, lists of addresses, a label and a prefix with a lane name in blanks,
\* an empty lane name, a comment, a blank line, a blank first field, and an
\* element that resolves to nothing
DefinitionLines ==
    { "f", "1,2,A,gfx", "2,2,B", "1;2,2;2,A", "main,g,C, gfx ", "1,2,D,snd",
      "1,2,E,", "// note", "", " ,1", "zz,1" }

RECURSIVE JoinLines(_)
JoinLines(ls) ==
    IF ls = <<>> THEN ""
    ELSE IF Len(ls) = 1 THEN ls[1]
         ELSE ls[1] \o "\n" \o JoinLines(Tail(ls))

\* the text is at most MaxLines of these lines
IsIntervalText(text) ==
    \E len \in 0..MaxLines :
        \E ls \in [1..len -> DefinitionLines] : text = JoinLines(ls)

InitReadIntervals ==
    /\ DecoderIdle
    /\ ReconstructorIdle
    /\ IsIntervalText(itext)
    /\ isymbols \in SymbolMaps
    /\ ipc = "loop"
    /\ line_no = 1
    /\ current_new_tid = 2
    /\ named = <<>>

SpecReadIntervals == InitReadIntervals /\ [][NextReadIntervals]_vars

----------------------------------------------------------------------------
(* generate_profiling_json *)

Init ==
    /\ DecoderIdle
    /\ BuilderIdle
    /\ overflow_checks \in BOOLEAN
    /\ IsPacketSequence(packets)
    /\ mclk \in ClockRates
    /\ symbols \in SymbolTables
    /\ \E t \in IntervalTables :
          /\ intervals = t.intervals
          /\ custom_threads = t.custom_threads
    /\ rpc = "start"
    /\ n = 1
    /\ last_cycle = 0
    /\ tid = 0
    /\ trace_events = <<>>
    /\ output = None
    /\ origin = <<>>
    /\ before = <<>>

\* a panic: the process aborts, nothing is written
Panic ==
    /\ rpc' = "panicked"
    /\ UNCHANGED <<n, last_cycle, trace_events, output, origin, before, intervals>>

\* the loop goes from the packet at n to the next one
Advance ==
    /\ n' = n + 1
    /\ before' = Append(before, [tid |-> tid, intervals_info |-> intervals.intervals_info])

\* the event put before the events pushed so far
PushFront(event) ==
    /\ trace_events' = <<event>> \o trace_events
    /\ origin' = <<n>> \o origin
    /\ Advance
    /\ UNCHANGED <<rpc, last_cycle, output, intervals>>

\* push one event for the packet at n and go to the next packet
Push(event) ==
    /\ trace_events' = Append(trace_events, event)
    /\ origin' = Append(origin, n)
    /\ Advance
    /\ UNCHANGED <<rpc, last_cycle, output, intervals>>

\* Start with `last().map_or(0, |p| p.cycle) + 1` for the unwrap: an empty
\* packet sequence goes on to the loop
StartWithoutUnwrap ==
    /\ rpc = "start"
    /\ UNCHANGED <<dvars, ivars, overflow_checks, packets, mclk, symbols, custom_threads,
                   intervals, n, output, tid, before>>
    /\ LET sum == U64Add(IF packets = <<>> THEN 0 ELSE packets[Len(packets)].cycle, 1)
       IN  IF sum.overflow /\ overflow_checks
           THEN /\ rpc' = "panicked"
                /\ UNCHANGED <<last_cycle, trace_events, origin>>
           ELSE /\ rpc' = "scan"
                /\ last_cycle' = sum.val
                /\ \E order \in IterationOrders(DOMAIN custom_threads) :
                      trace_events' =
                          MetadataEvents \o CustomThreadEvents(order, custom_threads)
                /\ origin' = [k \in 1..Len(trace_events') |-> 0]

\* lines 141-241: the metadata events, last_cycle, tid
Start ==
    /\ rpc = "start"
    /\ UNCHANGED <<dvars, ivars, overflow_checks, packets, mclk, symbols, custom_threads,
                   intervals, n, output, tid, before>>
    /\ IF packets = <<>>
       THEN \* input.packets.last().unwrap()
            /\ rpc' = "panicked"
            /\ UNCHANGED <<last_cycle, trace_events, origin>>
       ELSE LET sum == U64Add(packets[Len(packets)].cycle, 1)
            IN  IF sum.overflow /\ overflow_checks
                THEN /\ rpc' = "panicked"
                     /\ UNCHANGED <<last_cycle, trace_events, origin>>
                ELSE /\ rpc' = "scan"
                     /\ last_cycle' = sum.val
                     /\ \E order \in IterationOrders(DOMAIN custom_threads) :
                           trace_events' =
                               MetadataEvents \o CustomThreadEvents(order, custom_threads)
                     /\ origin' = [k \in 1..Len(trace_events') |-> 0]

AtPacket(inner) ==
    /\ rpc = "scan"
    /\ n <= Len(packets)
    /\ packets[n].inner = inner

\* lines 245-271
SubroutineEnter ==
    /\ AtPacket("SubroutineEnter")
    /\ UNCHANGED <<dvars, ivars, overflow_checks, packets, mclk, symbols, custom_threads, tid>>
    /\ LET packet == packets[n]
           end == SubroutineEnd(packets, n + 1, packet.stack_pointer, last_cycle,
                                overflow_checks)
           d == U64Sub(end.end_cycle, packet.cycle)
       IN  IF end.panic \/ (d.overflow /\ overflow_checks)
           THEN Panic
           ELSE Push(TraceEvent(LabelOf(symbols, packet.arg), "X",
                                cycle_to_us(packet.cycle, mclk),
                                cycle_to_us(d.val, mclk), tid, None, None))

\* lines 272-296
InterruptEnter ==
    /\ AtPacket("InterruptEnter")
    /\ UNCHANGED <<dvars, ivars, overflow_checks, packets, mclk, symbols, custom_threads>>
    /\ tid' = 1
    /\ LET packet == packets[n]
           end == InterruptEnd(packets, n + 1, last_cycle)
           d == U64Sub(end.end_cycle, packet.cycle)
       IN  IF d.overflow /\ overflow_checks
           THEN Panic
           ELSE Push(TraceEvent(LabelOf(symbols, packet.arg), "X",
                                cycle_to_us(packet.cycle, mclk),
                                cycle_to_us(d.val, mclk), tid', None, None))

\* InterruptExit without `tid = 0`
InterruptExitKeepsLane ==
    /\ AtPacket("InterruptExit")
    /\ Advance
    /\ UNCHANGED <<dvars, ivars, overflow_checks, packets, mclk, symbols, custom_threads,
                   intervals, rpc, last_cycle, tid, trace_events, output, origin>>

\* lines 297-299
InterruptExit ==
    /\ AtPacket("InterruptExit")
    /\ tid' = 0
    /\ Advance
    /\ UNCHANGED <<dvars, ivars, overflow_checks, packets, mclk, symbols, custom_threads,
                   intervals, rpc, last_cycle, trace_events, output, origin>>

\* VInt pushing its marker on the current lane
VIntOnCurrentLane ==
    /\ AtPacket("VInt")
    /\ UNCHANGED <<dvars, ivars, overflow_checks, packets, mclk, symbols, custom_threads, tid>>
    /\ Push(TraceEvent("VInt", "i", cycle_to_us(packets[n].cycle, mclk), 0, tid,
                       None, Some("g")))

\* lines 313-325
VInt ==
    /\ AtPacket("VInt")
    /\ UNCHANGED <<dvars, ivars, overflow_checks, packets, mclk, symbols, custom_threads, tid>>
    /\ Push(TraceEvent("VInt", "i", cycle_to_us(packets[n].cycle, mclk), 0, 1,
                       None, Some("g")))

\* lines 326-328
ManualBreakpoint ==
    /\ AtPacket("ManualBreakpoint")
    /\ UNCHANGED <<dvars, ivars, overflow_checks, packets, mclk, symbols, custom_threads, tid>>
    /\ LET r == reach(intervals, packets[n].arg, trace_events, packets[n].cycle,
                      mclk, overflow_checks)
       IN  IF r.panic
           THEN Panic
           ELSE /\ intervals' = r.intervals
                /\ trace_events' = r.events
                /\ origin' = origin \o [k \in 1..(Len(r.events) - Len(trace_events)) |-> n]
                /\ Advance
                /\ UNCHANGED <<rpc, last_cycle, output>>

\* line 330 with an event pushed for a SubroutineExit or HInt
SkipPushesEvent ==
    /\ rpc = "scan"
    /\ n <= Len(packets)
    /\ packets[n].inner \in {"SubroutineExit", "HInt"}
    /\ UNCHANGED <<dvars, ivars, overflow_checks, packets, mclk, symbols, custom_threads, tid>>
    /\ Push(TraceEvent("exit", "X", cycle_to_us(packets[n].cycle, mclk), 0, tid, None, None))

\* line 330: SubroutineExit and HInt push nothing
Skip ==
    /\ rpc = "scan"
    /\ n <= Len(packets)
    /\ packets[n].inner \in {"SubroutineExit", "HInt"}
    /\ Advance
    /\ UNCHANGED <<dvars, ivars, overflow_checks, packets, mclk, symbols, custom_threads,
                   intervals, rpc, last_cycle, tid, trace_events, output, origin>>

\* an event to `cycle` for every definition from index x on that is open
RECURSIVE SyntheticCloses(_, _, _, _)
SyntheticCloses(info, x, cycle, clk) ==
    IF x > Len(info) THEN <<>>
    ELSE (IF info[x].reached_at # None
          THEN <<TraceEvent(info[x].name, "X", cycle_to_us(info[x].reached_at[1], clk),
                            cycle_to_us(cycle - info[x].reached_at[1], clk),
                            info[x].tid, None, None)>>
          ELSE <<>>)
         \o SyntheticCloses(info, x + 1, cycle, clk)

\* WriteJson closing the intervals left open at last_cycle before it writes
WriteJsonClosesOpen ==
    /\ rpc = "scan"
    /\ n > Len(packets)
    /\ rpc' = "done"
    /\ output' = Some(trace_events
                      \o SyntheticCloses(intervals.intervals_info, 1, last_cycle, mclk))
    /\ UNCHANGED <<dvars, ivars, overflow_checks, packets, mclk, symbols, custom_threads,
                   intervals, n, last_cycle, tid, trace_events, origin, before>>

\* lines 333-341: the events are written to the file
WriteJson ==
    /\ rpc = "scan"
    /\ n > Len(packets)
    /\ rpc' = "done"
    /\ output' = Some(trace_events)
    /\ UNCHANGED <<dvars, ivars, overflow_checks, packets, mclk, symbols, custom_threads,
                   intervals, n, last_cycle, tid, trace_events, origin, before>>

Next ==
    \/ Start
    \/ SubroutineEnter
    \/ InterruptEnter
    \/ InterruptExit
    \/ VInt
    \/ ManualBreakpoint
    \/ Skip
    \/ WriteJson

Spec == Init /\ [][Next]_vars

----------------------------------------------------------------------------
(* Vocabulary of the properties of generate_profiling_json *)

\* the for loop has gone through packet k
Gone(k) == rpc \in {"scan", "done"} /\ k < n

\* the for loop panicked at packet k
PanickedAt(k) == rpc = "panicked" /\ trace_events # <<>> /\ n = k

\* the events packet k pushed, as indices of trace_events
EventsOf(k) == { m \in 1..Len(trace_events) : origin[m] = k }

Least(S) == CHOOSE x \in S : \A y \in S : x <= y
Greatest(S) == CHOOSE x \in S : \A y \in S : x >= y

IsKind(k, inner) == k \in 1..Len(packets) /\ packets[k].inner = inner

\* the SubroutineExit packets after k whose stack pointer plus 4 is at least
\* the stack pointer of packet k, as integers
ReturnsOf(k) ==
    { j \in (k + 1)..Len(packets) :
        /\ packets[j].inner = "SubroutineExit"
        /\ packets[j].stack_pointer + 4 >= packets[k].stack_pointer }

\* the InterruptExit packets after k
InterruptExitsAfter(k) ==
    { j \in (k + 1)..Len(packets) : packets[j].inner = "InterruptExit" }

\* the cycle of the last packet plus 1
TraceEnd == packets[Len(packets)].cycle + 1

\* packet k pushed exactly one event, a duration event from cycle `from` to
\* cycle `to`
OneDurationEvent(k, from, to) ==
    /\ Cardinality(EventsOf(k)) = 1
    /\ \A m \in EventsOf(k) :
          /\ trace_events[m].ph = "X"
          /\ trace_events[m].ts = cycle_to_us(from, mclk)
          /\ trace_events[m].dur = cycle_to_us(to - from, mclk)

\* the lane the packets before k leave: 1 when the latest InterruptEnter or
\* InterruptExit among them is an InterruptEnter, else 0
LaneAt(k) ==
    LET ints == { j \in 1..(k - 1) :
                    packets[j].inner \in {"InterruptEnter", "InterruptExit"} }
    IN  IF ints # {} /\ packets[Greatest(ints)].inner = "InterruptEnter" THEN 1 ELSE 0

\* tid and intervals_info after packet k, for a packet gone through
StateAfter(k) ==
    IF k < Len(before) THEN before[k + 1]
    ELSE [tid |-> tid, intervals_info |-> intervals.intervals_info]

----------------------------------------------------------------------------
(* C1: every SubroutineEnter at k that has a later SubroutineExit with        *)
(* stack pointer + 4 >= its own stack pointer pushes one duration event that  *)
(* starts at its cycle and ends at the cycle of the first such exit.          *)
SubroutineEndsAtFirstReturn ==
    \A k \in 1..Len(packets) :
        (IsKind(k, "SubroutineEnter") /\ Gone(k) /\ ReturnsOf(k) # {})
        => OneDurationEvent(k, packets[k].cycle, packets[Least(ReturnsOf(k))].cycle)

(* C2: a SubroutineEnter at k with no such later exit is no error and pushes  *)
(* one duration event from its cycle to the last packet's cycle plus 1.       *)
UnmatchedSubroutineRunsToTraceEnd ==
    \A k \in 1..Len(packets) :
        (IsKind(k, "SubroutineEnter") /\ ReturnsOf(k) = {})
        => /\ ~PanickedAt(k)
           /\ Gone(k) => OneDurationEvent(k, packets[k].cycle, TraceEnd)

(* C3: every InterruptEnter at k pushes one duration event on lane 1, from    *)
(* its cycle to the cycle of the first later InterruptExit, or to the last    *)
(* packet's cycle plus 1 when there is none; stack pointers play no part.     *)
InterruptEndsAtFirstExit ==
    \A k \in 1..Len(packets) :
        (IsKind(k, "InterruptEnter") /\ Gone(k))
        => /\ OneDurationEvent(k, packets[k].cycle,
                               IF InterruptExitsAfter(k) # {}
                               THEN packets[Least(InterruptExitsAfter(k))].cycle
                               ELSE TraceEnd)
           /\ \A m \in EventsOf(k) : trace_events[m].tid = 1

\* No arithmetic of the reconstruction overflows on these packets: the
\* cycles do not decrease and no SubroutineExit has a stack pointer within 4
\* of the largest u32
Benign ==
    /\ \A a, b \in 1..Len(packets) : a < b => packets[a].cycle <= packets[b].cycle
    /\ \A a \in 1..Len(packets) :
          packets[a].inner = "SubroutineExit" => packets[a].stack_pointer + 4 < U32Mod

\* On such packets the statements of C1, C2 and C3 hold and nothing panics
\* but the unwrap of an empty packet sequence
PairingHoldsWhenBenign ==
    Benign => /\ SubroutineEndsAtFirstReturn
              /\ UnmatchedSubroutineRunsToTraceEnd
              /\ InterruptEndsAtFirstExit
              /\ rpc = "panicked" => packets = <<>>

(* C4: tid is 0 at the start, 1 after an InterruptEnter, 0 after an           *)
(* InterruptExit and unchanged by every other packet, so it is 0 or 1 and     *)
(* the lane of a SubroutineEnter's event is 1 exactly when the latest         *)
(* InterruptEnter/InterruptExit before it is an InterruptEnter.               *)
CurrentLaneFollowsInterrupts ==
    /\ tid \in {0, 1}
    /\ rpc = "start" => tid = 0
    /\ rpc \in {"scan", "done"} => tid = LaneAt(n)
    /\ \A k \in 1..Len(before) : before[k].tid = LaneAt(k)
    /\ \A m \in 1..Len(trace_events) :
          IsKind(origin[m], "SubroutineEnter") => trace_events[m].tid = LaneAt(origin[m])

\* a subroutine was entered inside an interrupt that has since been left
CurrentLaneWitness ==
    /\ rpc = "done"
    /\ tid = 0
    /\ \E m \in 1..Len(trace_events) :
          IsKind(origin[m], "SubroutineEnter") /\ trace_events[m].tid = 1

(* C5: every VInt packet pushes exactly one event, the instantaneous marker   *)
(* "VInt" on lane 1 with zero duration at the packet's cycle, whatever tid    *)
(* is, and changes neither tid nor any interval's reached_at.                 *)
VIntPushesMarker ==
    \A k \in 1..Len(packets) :
        (IsKind(k, "VInt") /\ Gone(k))
        => /\ Cardinality(EventsOf(k)) = 1
           /\ \A m \in EventsOf(k) :
                 /\ trace_events[m].name = "VInt"
                 /\ trace_events[m].ph = "i"
                 /\ trace_events[m].ts = cycle_to_us(packets[k].cycle, mclk)
                 /\ trace_events[m].dur = 0
                 /\ trace_events[m].tid = 1
           /\ StateAfter(k) = before[k]

\* a VInt inside an interrupt, with an interval open
VIntWitness ==
    \E k \in 1..Len(packets) :
        /\ IsKind(k, "VInt") /\ Gone(k)
        /\ EventsOf(k) # {}
        /\ before[k].tid = 1
        /\ \E d \in 1..Len(before[k].intervals_info) :
              before[k].intervals_info[d].reached_at # None

----------------------------------------------------------------------------
(* Vocabulary of the properties of Intervals::reach *)

Definitions == 1..Len(intervals.intervals_info)

\* the map lists definition d at the address
Lists(map, address, d) ==
    address \in DOMAIN map /\ \E x \in 1..Len(map[address]) : map[address][x] = d

\* packet k is a breakpoint on a start (end) address of definition d
StartHit(k, d) ==
    IsKind(k, "ManualBreakpoint") /\ Lists(intervals.starts, packets[k].arg, d)
EndHit(k, d) ==
    IsKind(k, "ManualBreakpoint") /\ Lists(intervals.ends, packets[k].arg, d)

\* the events packet k pushed for definition d
IntervalEventsOf(k, d) ==
    { m \in EventsOf(k) : trace_events[m].name = intervals.intervals_info[d].name }

\* d is closed before packet a, a is a start hit, the hits between a and k
\* are start hits and no end hits, at least one of them, and k is an end hit
RepeatedStartThenEnd(d, a, k) ==
    /\ a + 1 < k /\ Gone(k)
    /\ before[a].intervals_info[d].reached_at = None
    /\ StartHit(a, d)
    /\ \E b \in (a + 1)..(k - 1) : StartHit(b, d)
    /\ \A b \in (a + 1)..(k - 1) : ~EndHit(b, d)
    /\ EndHit(k, d)

(* C10: for a closed definition, two or more start hits with no end hit       *)
(* between them, then an end hit: the end hit pushes exactly one event for    *)
(* the definition, starting at the cycle of the first start hit, and the      *)
(* later start hits leave reached_at as it is.                                *)
RepeatedStartHitsOpenOnce ==
    \A d \in Definitions : \A a, k \in 1..Len(packets) :
        RepeatedStartThenEnd(d, a, k)
        => /\ Cardinality(IntervalEventsOf(k, d)) = 1
           /\ \A m \in IntervalEventsOf(k, d) :
                 trace_events[m].ts = cycle_to_us(packets[a].cycle, mclk)
           /\ \A b \in (a + 1)..(k - 1) :
                 StartHit(b, d)
                 => /\ before[b].intervals_info[d].reached_at = Some(packets[a].cycle)
                    /\ StateAfter(b).intervals_info[d].reached_at = Some(packets[a].cycle)

RepeatedStartHitsWitness ==
    \E d \in Definitions : \E a, k \in 1..Len(packets) :
        RepeatedStartThenEnd(d, a, k) /\ IntervalEventsOf(k, d) # {}

\* definition d is open (closed) in the registry state st
IsOpen(st, d) == st.intervals_info[d].reached_at # None
IsClosed(st, d) == st.intervals_info[d].reached_at = None

\* the hit at packet k opened definition d: d is open after it, and was
\* closed before it or closed by it
OpenedAt(k, d) ==
    /\ k \in 1..Len(before)
    /\ IsOpen(StateAfter(k), d)
    /\ IsClosed(before[k], d) \/ IntervalEventsOf(k, d) # {}

Openings(d) == { k \in 1..Len(before) : OpenedAt(k, d) }

\* all events pushed for definition d
EventsFor(d) ==
    { m \in 1..Len(trace_events) :
        origin[m] # 0 /\ trace_events[m].name = intervals.intervals_info[d].name }

\* a hit pushes at most one event for d, and every event for d follows an
\* opening of d with no other event for d in between
EventsAlternateWithOpenings(d) ==
    LET events == EventsFor(d)
        opened == Openings(d)
    IN  /\ \A x, y \in events : origin[x] = origin[y] => x = y
        /\ \A m \in events :
              \E o \in opened :
                 /\ o < origin[m]
                 /\ \A y \in events : ~(o < origin[y] /\ origin[y] < origin[m])
        /\ Cardinality(events) <= Cardinality(opened)

(* C11 as stated: an end hit on a definition that is not open pushes no       *)
(* event for it and leaves it closed; the events of a definition alternate    *)
(* with its openings and are never more than its openings.                    *)
EndHitOnClosedLeavesClosed ==
    \A d \in Definitions :
        /\ \A k \in 1..Len(packets) :
              (Gone(k) /\ EndHit(k, d) /\ IsClosed(before[k], d))
              => /\ IntervalEventsOf(k, d) = {}
                 /\ IsClosed(StateAfter(k), d)
        /\ EventsAlternateWithOpenings(d)

(* C11 as amended: an end hit on a definition that is not open pushes no      *)
(* event for it; it leaves it closed unless the address is also a start       *)
(* address of the definition, and then it opens it at the cycle of the hit;   *)
(* the events of a definition alternate with its openings and are never more  *)
(* than its openings.                                                         *)
EndHitOnClosedPushesNothing ==
    \A d \in Definitions :
        /\ \A k \in 1..Len(packets) :
              (Gone(k) /\ EndHit(k, d) /\ IsClosed(before[k], d))
              => /\ IntervalEventsOf(k, d) = {}
                 /\ StateAfter(k).intervals_info[d].reached_at =
                       IF StartHit(k, d) THEN Some(packets[k].cycle) ELSE None
        /\ EventsAlternateWithOpenings(d)

\* an end hit found the definition closed and opened it, its address being a
\* start address too; another found it never opened and left it closed; and
\* an event was pushed for a definition
EndHitOnClosedWitness ==
    /\ \E d \in Definitions : \E k \in 1..Len(packets) :
          /\ Gone(k) /\ EndHit(k, d) /\ StartHit(k, d)
          /\ IsClosed(before[k], d) /\ IsOpen(StateAfter(k), d)
    /\ \E d \in Definitions : \E k \in 1..Len(packets) :
          /\ Gone(k) /\ EndHit(k, d) /\ ~StartHit(k, d)
          /\ IsClosed(before[k], d) /\ IsClosed(StateAfter(k), d)
    /\ \E d \in Definitions : EventsFor(d) # {}

\* no packet has a lower cycle than the packet before it
NonDecreasingCycles ==
    \A a, b \in 1..Len(packets) : a < b => packets[a].cycle <= packets[b].cycle

\* the hit at packet k pushed exactly one event for definition d, which was
\* open before it: the duration event from the cycle d was opened at to the
\* cycle of the hit, with d's name, on d's lane
ClosingEvent(k, d) ==
    LET t == before[k].intervals_info[d].reached_at[1]
        c == packets[k].cycle
    IN  /\ Cardinality(IntervalEventsOf(k, d)) = 1
        /\ \A m \in IntervalEventsOf(k, d) :
              /\ trace_events[m].name = intervals.intervals_info[d].name
              /\ trace_events[m].ph = "X"
              /\ trace_events[m].ts = cycle_to_us(t, mclk)
              /\ trace_events[m].dur = cycle_to_us(c - t, mclk)
              /\ trace_events[m].tid = intervals.intervals_info[d].tid

(* C12: a hit at cycle c on an end address of an open definition A that is    *)
(* a start address of a closed definition B leaves A closed with one event    *)
(* from A's opening cycle to c pushed, and B open since c; when A and B are   *)
(* the same definition and it is open, the hit pushes its event and leaves    *)
(* it open since c.                                                           *)
ClosesBeforeOpening ==
    \A k \in 1..Len(packets) : \A A, B \in Definitions :
        (/\ Gone(k)
         /\ EndHit(k, A) /\ IsOpen(before[k], A)
         /\ StartHit(k, B) /\ (A = B \/ IsClosed(before[k], B)))
        => /\ ClosingEvent(k, A)
           /\ A # B => IsClosed(StateAfter(k), A)
           /\ StateAfter(k).intervals_info[B].reached_at = Some(packets[k].cycle)

(* C13: an end hit at cycle c on a definition opened at cycle t pushes one    *)
(* duration event that starts at t, lasts c - t, has the definition's name    *)
(* and is on the definition's lane, whatever tid is.                          *)
ClosingEventCarriesDefinition ==
    \A k \in 1..Len(packets) : \A d \in Definitions :
        (Gone(k) /\ EndHit(k, d) /\ IsOpen(before[k], d)) => ClosingEvent(k, d)

\* On packets whose cycles do not decrease the statements of C12 and C13
\* hold and no hit panics
ClosingHoldsWhenCyclesRise ==
    NonDecreasingCycles
    => /\ ClosesBeforeOpening
       /\ ClosingEventCarriesDefinition
       /\ \A k \in 1..Len(packets) : IsKind(k, "ManualBreakpoint") => ~PanickedAt(k)

\* such hits happen on rising cycles: one closes A and opens B, one closes B
\* and reopens it, one closes a definition on a lane of its own while tid is 1
ClosingWhenCyclesRiseWitness ==
    /\ NonDecreasingCycles
    /\ \/ \E k \in 1..Len(packets) : \E A, B \in Definitions :
             /\ A # B /\ Gone(k) /\ EndHit(k, A) /\ IsOpen(before[k], A)
             /\ StartHit(k, B) /\ IsClosed(before[k], B)
             /\ packets[k].cycle > before[k].intervals_info[A].reached_at[1]
       \/ \E k \in 1..Len(packets) : \E A \in Definitions :
             /\ Gone(k) /\ EndHit(k, A) /\ IsOpen(before[k], A) /\ StartHit(k, A)
             /\ packets[k].cycle > before[k].intervals_info[A].reached_at[1]
       \/ \E k \in 1..Len(packets) : \E d \in Definitions :
             /\ Gone(k) /\ EndHit(k, d) /\ IsOpen(before[k], d)
             /\ before[k].tid = 1 /\ intervals.intervals_info[d].tid = 2

\* the end hits that found their definition open, as <<packet, definition>>
ClosingHits ==
    { h \in (1..Len(before)) \X Definitions :
        EndHit(h[1], h[2]) /\ IsOpen(before[h[1]], h[2]) }

\* the events of a sequence of events that are no metadata events and no
\* subroutine, interrupt or VInt events of the packets
IntervalEventsIn(events) ==
    { m \in 1..Len(events) :
        m > Len(origin) \/ IsKind(origin[m], "ManualBreakpoint") }

(* C14: what is written is what the scan pushed: a definition still open      *)
(* after the last packet has no event for its last opening, and the number    *)
(* of interval events written is the number of end hits that found their      *)
(* definition open.                                                           *)
NoCloseAtTraceEnd ==
    output # None
    => /\ Cardinality(IntervalEventsIn(output[1])) = Cardinality(ClosingHits)
       /\ \A d \in Definitions :
             IsOpen(intervals, d)
             => /\ Openings(d) # {}
                /\ \A m \in 1..Len(output[1]) :
                      output[1][m].name = intervals.intervals_info[d].name
                      => m <= Len(origin) /\ origin[m] <= Greatest(Openings(d))
                /\ Cardinality({ m \in 1..Len(output[1]) :
                                   output[1][m].name = intervals.intervals_info[d].name })
                   = Cardinality(Openings(d)) - 1

\* the file is written with a definition open that was closed once before
NoCloseAtTraceEndWitness ==
    /\ output # None
    /\ \E d \in Definitions :
          /\ IsOpen(intervals, d)
          /\ Cardinality(Openings(d)) = 2
          /\ EventsFor(d) # {}

\* event m was pushed by a breakpoint hit
IsIntervalEvent(m) == IsKind(origin[m], "ManualBreakpoint")

(* C16 as stated: on packets with non-decreasing cycles every event starts    *)
(* no earlier than the event pushed before it.                                *)
EventsInStartOrder ==
    NonDecreasingCycles
    => \A m \in 2..Len(trace_events) : trace_events[m].ts >= trace_events[m - 1].ts

(* C16 as amended: events are appended in the order of the packets that push  *)
(* them; on packets with non-decreasing cycles a subroutine, interrupt or     *)
(* VInt event starts no earlier than any event pushed before it, and an       *)
(* interval event, which starts at the cycle its definition was opened, ends  *)
(* (at the cycle of its end hit) no earlier than any event pushed before it   *)
(* starts.                                                                    *)
EventsInScanOrder ==
    /\ \A b \in 2..Len(trace_events) : origin[b - 1] <= origin[b]
    /\ NonDecreasingCycles
       => \A b \in 1..Len(trace_events) :
             LET reached == IF IsIntervalEvent(b)
                            THEN trace_events[b].ts + trace_events[b].dur
                            ELSE trace_events[b].ts
             IN  /\ origin[b] # 0 => reached = cycle_to_us(packets[origin[b]].cycle, mclk)
                 /\ \A a \in 1..(b - 1) : trace_events[a].ts <= reached

\* an interval event is pushed after an event that starts later than it
EventsInScanOrderWitness ==
    /\ NonDecreasingCycles
    /\ \E m \in 2..Len(trace_events) :
          /\ IsIntervalEvent(m)
          /\ ~IsIntervalEvent(m - 1)
          /\ trace_events[m].ts < trace_events[m - 1].ts

----------------------------------------------------------------------------
(* Vocabulary of the properties of read_profiling_file *)

IsAdjust(r) == r.packet_type = 6
IsPacket(r) == r.packet_type # 6

\* the records consumed so far that are no AdjustCycles records
PacketRecords == SelectSeq(records, IsPacket)

\* the sum of the deltas (the relative-cycle fields) of the AdjustCycles
\* records among the first x records
RECURSIVE DeltaSum(_)
DeltaSum(x) ==
    IF x = 0 THEN 0
    ELSE DeltaSum(x - 1) + (IF IsAdjust(records[x]) THEN records[x].cycle32 ELSE 0)

\* the number of records consumed before the one at byte offset pos
Preceding(pos) == Cardinality({ x \in 1..Len(records) : records[x].at < pos })

\* the size of a record in bytes as the stream has it: type, relative cycle,
\* stack pointer, and an address after types 0, 2 and 7
RecordSize(packet_type) == IF packet_type \in {0, 2, 7} THEN 13 ELSE 9

\* the size of a record as the claim C7 states it: AdjustCycles (6) carries a
\* 4-byte delta after the stack pointer
StatedRecordSize(packet_type) == IF packet_type \in {0, 2, 6, 7} THEN 13 ELSE 9

\* the stream, taken as records from its byte `at` (1-based) on, holds a
\* record of a type outside 0..7 or one with fewer bytes left than its size
RECURSIVE BadRecordFrom(_)
BadRecordFrom(at) ==
    IF at > Len(input.stream) THEN FALSE
    ELSE \/ input.stream[at] \notin 0..7
         \/ at + RecordSize(input.stream[at]) - 1 > Len(input.stream)
         \/ BadRecordFrom(at + RecordSize(input.stream[at]))

\* the types of the whole records of the stream from its byte `at` on
RECURSIVE TypesFrom(_)
TypesFrom(at) ==
    IF \/ at > Len(input.stream)
       \/ input.stream[at] \notin 0..7
       \/ at + RecordSize(input.stream[at]) - 1 > Len(input.stream)
    THEN <<>>
    ELSE <<input.stream[at]>> \o TypesFrom(at + RecordSize(input.stream[at]))

IsAdjustType(t) == t = 6

\* the consumed records lie end to end from offset 256 to i, each of the
\* given size and inside the input
LaidOut(Size(_)) ==
    /\ \A x \in 1..Len(records) :
          /\ records[x].at = IF x = 1 THEN 256 ELSE records[x - 1].next
          /\ records[x].next = records[x].at + Size(records[x].packet_type)
          /\ records[x].next <= InputLen
    /\ dpc \in {"loop", "returned"} /\ records # <<>> => i = records[Len(records)].next

(* C6: no AdjustCycles record becomes a packet, the cycle of every packet is  *)
(* its relative cycle plus the deltas of the AdjustCycles records before it,  *)
(* and cycle_offset is the sum of the deltas consumed, starting at 0.         *)
CyclesCarryOffset ==
    /\ Len(dpackets) = Len(PacketRecords)
    /\ \A q \in 1..Len(dpackets) :
          /\ dpackets[q].inner # "AdjustCycles"
          /\ dpackets[q].cycle =
                PacketRecords[q].cycle32 + DeltaSum(Preceding(PacketRecords[q].at))
    /\ cycle_offset = DeltaSum(Len(records))

\* a packet after two AdjustCycles records with different deltas
CyclesCarryOffsetWitness ==
    /\ dpc = "returned"
    /\ \E x, y \in 1..Len(records) :
          /\ x < y /\ IsAdjust(records[x]) /\ IsAdjust(records[y])
          /\ records[x].cycle32 # records[y].cycle32
    /\ \E q \in 1..Len(dpackets) :
          dpackets[q].cycle = PacketRecords[q].cycle32 + 65539

(* C7 as stated: every record is 9 bytes plus 4 for SubroutineEnter,          *)
(* InterruptEnter, ManualBreakpoint and AdjustCycles, and the read position   *)
(* advances by that size.                                                     *)
RecordLayoutAsStated == LaidOut(StatedRecordSize)

(* C7 as amended: every record is 9 bytes plus 4 for SubroutineEnter,         *)
(* InterruptEnter and ManualBreakpoint only; an AdjustCycles record is 9      *)
(* bytes and its delta is its relative-cycle field; the read position         *)
(* advances by that size, and the fields are read at offsets 1, 5 and 9.      *)
RecordLayout ==
    /\ LaidOut(RecordSize)
    /\ \A x \in 1..Len(records) :
          LET r == records[x]
              st == r.at - 256
              Word(o) == input.stream[st + o + 1] + 256 * input.stream[st + o + 2]
                         + 65536 * input.stream[st + o + 3]
                         + 16777216 * input.stream[st + o + 4]
          IN  /\ r.packet_type = input.stream[st + 1]
              /\ r.cycle32 = Word(1)
              /\ r.stack_pointer = Word(5)
              /\ r.packet_type \in {0, 2, 7} => r.arg = Word(9)
    /\ \A q \in 1..Len(dpackets) :
          /\ dpackets[q].stack_pointer = PacketRecords[q].stack_pointer
          /\ dpackets[q].arg = PacketRecords[q].arg

\* a stream of an AdjustCycles record, a record with and one without payload
RecordLayoutWitness ==
    /\ dpc = "returned"
    /\ \E x, y, z \in 1..Len(records) :
          /\ IsAdjust(records[x]) /\ records[x].cycle32 > 0
          /\ records[y].packet_type \in {0, 2, 7}
          /\ records[z].packet_type \in {1, 3, 4, 5}

(* C8 as stated: decoding panics exactly when the stream from offset 256      *)
(* holds a record of a type outside 0..7 or a record cut short, and returns   *)
(* on every other stream.                                                     *)
FailsExactlyOnBadRecord ==
    /\ dpc = "panicked" => BadRecordFrom(1)
    /\ dpc = "returned" => ~BadRecordFrom(1)

(* C8 as amended: decoding panics exactly when the input is shorter than the  *)
(* 12 header bytes read, or its stream holds a record of a type outside 0..7  *)
(* or a record cut short; it returns on every other input.                    *)
FailsExactlyOnBadInput ==
    /\ dpc = "panicked" => (InputLen < 12 \/ BadRecordFrom(1))
    /\ dpc = "returned" => ~(InputLen < 12 \/ BadRecordFrom(1))

\* a panic on an unknown type after whole records
FailsOnBadInputWitness ==
    /\ dpc = "panicked"
    /\ records # <<>>
    /\ input.stream[i - 256 + 1] \notin 0..7

(* C9 as stated: when the decoder returns, the read position is the input     *)
(* length, every packet comes from one whole record, and there are as many    *)
(* packets as records in the stream that are no AdjustCycles records.         *)
StopsAtInputEnd ==
    dpc = "returned"
    => /\ i = InputLen
       /\ LaidOut(RecordSize)
       /\ Len(dpackets) = Len(TypesFrom(1)) - Len(SelectSeq(TypesFrom(1), IsAdjustType))

(* C9 as amended: the same for an input of at least 256 bytes; on a shorter   *)
(* input the loop body never runs, the position stays 256 and no packet is    *)
(* made.                                                                      *)
StopsAtStreamEnd ==
    dpc = "returned"
    => /\ InputLen >= 256 => i = InputLen
       /\ InputLen < 256 => i = 256 /\ records = <<>>
       /\ LaidOut(RecordSize)
       /\ Len(dpackets) = Len(TypesFrom(1)) - Len(SelectSeq(TypesFrom(1), IsAdjustType))

\* a return after an AdjustCycles record and two packets
StopsAtStreamEndWitness ==
    /\ dpc = "returned"
    /\ Len(dpackets) = 2
    /\ Len(records) = 3
    /\ i = InputLen

\* event m was pushed by a SubroutineEnter
IsSubroutineEvent(m) == IsKind(origin[m], "SubroutineEnter")

\* the time event m ends at
EndOf(m) == trace_events[m].ts + trace_events[m].dur

(* C18: on packets with non-decreasing cycles, of two subroutine events on    *)
(* one lane the one that starts inside the other does not end after it.       *)
SubroutineEventsNest ==
    NonDecreasingCycles
    => \A a, b \in 1..Len(trace_events) :
          (/\ IsSubroutineEvent(a) /\ IsSubroutineEvent(b)
           /\ trace_events[a].tid = trace_events[b].tid
           /\ trace_events[a].ts < trace_events[b].ts
           /\ trace_events[b].ts < EndOf(a))
          => EndOf(b) <= EndOf(a)

\* The subroutine events do not nest even when no stack pointer sum
\* overflows: this is violated on packets of Benign
SubroutineEventsNestWhenBenign == Benign => SubroutineEventsNest

\* They nest when, besides, no SubroutineEnter has a higher stack pointer
\* than a SubroutineEnter before it: an exit that ends the earlier event then
\* ends the later one too
SubroutineEventsNestWhenStackDescends ==
    (/\ Benign
     /\ \A a, b \in 1..Len(packets) :
           (a < b /\ IsKind(a, "SubroutineEnter") /\ IsKind(b, "SubroutineEnter"))
           => packets[b].stack_pointer <= packets[a].stack_pointer)
    => SubroutineEventsNest

\* the packets gone through that push one event each
PushingPackets ==
    { k \in 1..Len(before) :
        packets[k].inner \in {"SubroutineEnter", "InterruptEnter", "VInt"} }

(* C19: every SubroutineEnter and InterruptEnter pushes exactly one duration  *)
(* event, starting at its cycle, in the order of the packets; SubroutineExit, *)
(* InterruptExit and HInt push nothing, whatever events end at them; so the   *)
(* events of the packets are as many as the SubroutineEnter, InterruptEnter   *)
(* and VInt packets plus the closings of intervals.                           *)
EntersPushOneEvent ==
    /\ \A k \in 1..Len(packets) :
          Gone(k)
          => LET pushed == EventsOf(k)
             IN  /\ packets[k].inner \in {"SubroutineEnter", "InterruptEnter"}
                    => /\ Cardinality(pushed) = 1
                       /\ \A m \in pushed :
                             /\ trace_events[m].ph = "X"
                             /\ trace_events[m].ts = cycle_to_us(packets[k].cycle, mclk)
                 /\ packets[k].inner \in {"SubroutineExit", "InterruptExit", "HInt"}
                    => pushed = {}
    /\ \A b \in 2..Len(trace_events) : origin[b - 1] <= origin[b]
    /\ rpc \in {"scan", "done"}
       => Cardinality({ m \in 1..Len(trace_events) : origin[m] # 0 })
          = Cardinality(PushingPackets) + Cardinality(ClosingHits)
    /\ output # None => output[1] = trace_events

\* two SubroutineEnter packets have events that end at the same
\* SubroutineExit, which pushed nothing
EntersPushOneEventWitness ==
    /\ rpc = "done"
    /\ \E k1, k2, j \in 1..Len(packets) :
          /\ k1 < k2 /\ k2 < j
          /\ IsKind(k1, "SubroutineEnter") /\ IsKind(k2, "SubroutineEnter")
          /\ IsKind(j, "SubroutineExit")
          /\ packets[k1].cycle < packets[k2].cycle /\ packets[k2].cycle < packets[j].cycle
          /\ EventsOf(j) = {}
          /\ \A m \in EventsOf(k1) \cup EventsOf(k2) :
                EndOf(m) = cycle_to_us(packets[j].cycle, mclk)

(* C20: the test `exit stack pointer + 4 >= enter stack pointer` is that of   *)
(* the integers for every pair of stack pointers: on packets with             *)
(* non-decreasing cycles no SubroutineEnter aborts, and one that has later    *)
(* exits passing the test on the integers has its event end at the first of   *)
(* them, also when the exit's stack pointer is within 4 of the largest u32.   *)
FrameTestWithoutOverflow ==
    NonDecreasingCycles
    => \A k \in 1..Len(packets) :
          IsKind(k, "SubroutineEnter")
          => /\ ~PanickedAt(k)
             /\ (Gone(k) /\ ReturnsOf(k) # {})
                => OneDurationEvent(k, packets[k].cycle, packets[Least(ReturnsOf(k))].cycle)

(* C17: in the packets the decoder makes, no packet has a lower cycle than    *)
(* the packet before it.  (The cycles of the model are exact sums far below   *)
(* 2^64: they never overflow.)                                                *)
DecodedCyclesNonDecreasing ==
    \A q \in 2..Len(dpackets) : dpackets[q].cycle >= dpackets[q - 1].cycle

\* The cycles do not decrease when the relative cycles of the records that
\* become packets do not: cycle_offset only grows
DecodedCyclesFollowRelativeCycles ==
    (\A q \in 2..Len(PacketRecords) :
        PacketRecords[q].cycle32 >= PacketRecords[q - 1].cycle32)
    => DecodedCyclesNonDecreasing

\* the subtractions `to - from` the step at packet n evaluates: the duration
\* of the event of a SubroutineEnter or InterruptEnter, and for a
\* ManualBreakpoint one for every open definition its address ends
DurationsAt ==
    LET packet == packets[n]
    IN  IF packet.inner = "SubroutineEnter"
        THEN LET end == SubroutineEnd(packets, n + 1, packet.stack_pointer, last_cycle,
                                      overflow_checks)
             IN  IF end.panic THEN {}
                 ELSE {[to |-> end.end_cycle, from |-> packet.cycle]}
        ELSE IF packet.inner = "InterruptEnter"
        THEN {[to |-> InterruptEnd(packets, n + 1, last_cycle).end_cycle,
               from |-> packet.cycle]}
        ELSE IF packet.inner = "ManualBreakpoint"
        THEN LET idxs == GetOrEmpty(intervals.ends, packet.arg)
                 info == intervals.intervals_info
             IN  { [to |-> packet.cycle, from |-> info[idxs[x]].reached_at[1]] :
                     x \in { y \in 1..Len(idxs) : info[idxs[y]].reached_at # None } }
        ELSE {}

(* C21: no duration the reconstruction computes underflows: at every packet   *)
(* the loop comes to, the end cycle of each subtraction it evaluates (the     *)
(* matched exit's cycle, the last packet's cycle plus 1, or the cycle of the  *)
(* closing hit) is at least the cycle subtracted from it.                     *)
DurationsNeverUnderflow ==
    (rpc = "scan" /\ n <= Len(packets))
    => \A d \in DurationsAt : U64Sub(d.to, d.from).overflow = FALSE

\* No duration underflows on packets whose cycles do not decrease, when the
\* last cycle plus 1 fits in 64 bits
DurationsHoldWhenCyclesRise ==
    (NonDecreasingCycles /\ (rpc = "scan" => last_cycle = TraceEnd))
    => DurationsNeverUnderflow

\* ... and on such packets each of the three kinds of subtraction is evaluated
DurationsWhenCyclesRiseWitness ==
    /\ NonDecreasingCycles
    /\ rpc = "scan"
    /\ n <= Len(packets)
    /\ last_cycle = TraceEnd
    /\ packets[n].inner = "ManualBreakpoint"
    /\ DurationsAt # {}
    /\ \E d \in DurationsAt : d.to > d.from

(* C22: the reconstruction of an empty packet sequence aborts before          *)
(* anything is written: it never comes to the loop or to the end, and no      *)
(* output exists, not even one of the metadata events alone.                  *)
EmptySequenceAborts ==
    packets = <<>> => /\ rpc \notin {"scan", "done"}
                      /\ output = None

\* the reconstruction of an empty packet sequence has aborted
EmptySequenceAbortsWitness ==
    /\ packets = <<>>
    /\ rpc = "panicked"
    /\ output = None

\* the stream is whole AdjustCycles records, or empty
OnlyAdjustRecords ==
    /\ input.header_len = StreamStart
    /\ Len(input.stream) % 9 = 0
    /\ \A k \in 0..((Len(input.stream) \div 9) - 1) :
          input.stream[9 * k + 1] = PROFILER_PACKET_ADJUST_CYCLES

\* The decoder accepts such a stream and makes no packet of it: the empty
\* packet sequence of C22 is one the decoder produces
AdjustOnlyStreamsDecodeToNoPackets ==
    OnlyAdjustRecords => /\ dpc # "panicked"
                         /\ dpackets = <<>>
                         /\ dpc = "returned" => Len(records) = Len(input.stream) \div 9

\* ... for a stream with no record and for one with AdjustCycles records
NoRecordStreamWitness ==
    OnlyAdjustRecords /\ dpc = "returned" /\ input.stream = <<>>

AdjustOnlyStreamWitness ==
    OnlyAdjustRecords /\ dpc = "returned" /\ Len(records) >= 2 /\ dpackets = <<>>

----------------------------------------------------------------------------
(* Vocabulary of the properties of read_intervals *)

\* the definitions built so far
Built == 1..Len(intervals.intervals_info)

\* the first definition that names the lane nm
FirstNaming(nm) == Least({ d \in Built : named[d] = Some(nm) })

\* the lane names given by the definitions before d
NamedBefore(d) == { named[e][1] : e \in { x \in 1..(d - 1) : named[x] # None } }

\* the lane names given so far
LaneNames == NamedBefore(Len(named) + 1)

(* C15: at every line of the build, a definition that names no lane has tid   *)
(* 0; the first definition naming a lane has tid 2 plus the number of lanes   *)
(* named before it, and every definition naming that lane has the same tid;   *)
(* so different lanes have different ids, none of them 0 or 1; custom_threads *)
(* holds the id of every lane named and current_new_tid is the next id.       *)
LaneIdsByFirstAppearance ==
    /\ Len(named) = Len(intervals.intervals_info)
    /\ \A d \in Built :
          intervals.intervals_info[d].tid =
              IF named[d] = None THEN 0
              ELSE 2 + Cardinality(NamedBefore(FirstNaming(named[d][1])))
    /\ \A d, e \in Built :
          (named[d] # None /\ named[e] # None)
          => /\ intervals.intervals_info[d].tid \notin {0, 1}
             /\ (named[d] = named[e])
                <=> (intervals.intervals_info[d].tid = intervals.intervals_info[e].tid)
    /\ DOMAIN custom_threads = LaneNames
    /\ \A d \in Built :
          named[d] # None => custom_threads[named[d][1]] = intervals.intervals_info[d].tid
    /\ ipc # "idle" => current_new_tid = 2 + Cardinality(LaneNames)

\* three definitions are built: the first and the third name one lane, the
\* second another
LaneIdsWitness ==
    /\ ipc = "returned"
    /\ Len(named) = 3
    /\ named[1] # None /\ named[2] # None /\ named[1] # named[2] /\ named[3] = named[1]
    /\ intervals.intervals_info[2].tid = 3
    /\ intervals.intervals_info[3].tid = 2

\* read_intervals returns a registry of IntervalTables
BuildsIntervalTable(t) ==
    /\ ipc = "returned"
    /\ intervals = t.intervals
    /\ custom_threads = t.custom_threads

\* the registries of IntervalTables are built from texts of the model:
\* SpecReadIntervals reaches each of these states
BuildsFirstTable ==
    BuildsIntervalTable(
        [intervals |-> [intervals_info |-> <<IntervalInfo("A", 2), IntervalInfo("B", 0)>>,
                        starts |-> (1 :> <<1>>) @@ (2 :> <<2>>),
                        ends |-> (2 :> <<1, 2>>)],
         custom_threads |-> ("gfx" :> 2)])

BuildsSecondTable ==
    BuildsIntervalTable(
        [intervals |-> [intervals_info |-> <<IntervalInfo("A", 0)>>,
                        starts |-> (1 :> <<1>>) @@ (2 :> <<1>>),
                        ends |-> (2 :> <<1, 1>>)],
         custom_threads |-> <<>>])

====
